---- MODULE Spec2Model ----
(***************************************************************************)
(* A model of the PLC gateway (src/gateway/gateway.py) and of the end-code *)
(* classifier it relies on (src/libs/pymcprotocol/mcprotocolerror.py).     *)
(*                                                                         *)
(* Python strings are sequences of code points, bytes are sequences of     *)
(* numbers in 0..255.  Every request handler is a small state machine      *)
(* whose steps are the calls it makes on the transport; the PLC and the    *)
(* transport library are the environment and answer nondeterministically.  *)
(* One specification per operation:                                        *)
(*   SpecClassify  check_mcprotocol_error on every 16-bit end-code         *)
(*   SpecParse     _parse_iqr on listing buffers, whole and cut            *)
(*   SpecRead      api_read / _read_plc                                    *)
(*   SpecSearch    api_filesearch                                          *)
(*   SpecFile      api_file_readall and api_file_read                      *)
(*   SpecShared    api_file_readall with a second file request             *)
(*   SpecPath      the path normalisation of api_filesearch                *)
(*   SpecParseLoop the loop of _parse_iqr, one iteration per step          *)
(*   SpecOps       one request of any of SpecRead, SpecSearch, SpecFile    *)
(* and, for the analysis server (src/server/comments_search.py and         *)
(* src/server/plc_agent.py):                                               *)
(*   SpecComments  run_analysis reloading the comment table while the      *)
(*                 comment tool of another request reads it                *)
(***************************************************************************)
EXTENDS Integers, Sequences, FiniteSets, TLC

VARIABLES
    pc,         \* position of the running handler
    resp,       \* what the caller receives: [status, ...]
    calls,      \* the calls made on the Type3E object, in order
    pending,    \* outcome waiting in a finally block (return value or exception)
    status,     \* classifier: the end-code handed to check_mcprotocol_error
    exc,        \* classifier: what check_mcprotocol_error raised (or NoError)
    raw,        \* decoder: the bytes handed to _parse_iqr
    recs,       \* decoder: the records raw was built from
    cut,        \* decoder: how many bytes of the built buffer raw keeps
    layout,     \* decoder: the record layout raw was built in
    parsed,     \* decoder: what _parse_iqr returned, or that it raised; while
                \* its loop runs step by step, the loop's idx and files
    device,     \* device read: ReadRequest.device
    addr,       \* device read: ReadRequest.addr
    length,     \* device read: ReadRequest.length
    filename,   \* search: the requested file name
    path,       \* search: the requested directory path
    dir1811,    \* search: the directory handed to the direct search (1811h)
    dir1810,    \* search: the directory handed to the enumeration (1810h)
    ec,         \* search: the end-code text taken from the MCProtocolError
    files,      \* search: the entries collected by the enumeration
    start,      \* search: start_file_no of the next enumeration page
    devCode,    \* PLC: the end-code it answers the direct search with
    dirSize,    \* PLC: the number of entries of the directory
    matchPos,   \* PLC: position of the entry named matchName (0: there is none)
    matchName,  \* PLC: the name of that entry
    chunk,      \* file: FileReadAllReq.chunk
    fp,         \* file: the handle (FileReadReq.fp, or the one open_file returned)
    offset,     \* file: the read offset (FileReadReq.offset, or the loop's)
    content,    \* file: the bytes api_file_readall has accumulated
    nOpen,      \* file: calls of file_ctl.open_file
    nRead,      \* file: calls of file_ctl.read_file
    closeCalls, \* file: the handles file_ctl.close_file was called with, in order
    devReads,   \* PLC: read-file commands (1828h) that reached it
    fileSize,   \* PLC: the size of the file in bytes
    openHandles, \* PLC: the handles that are open
    pc2,        \* second request: its position
    op2,        \* second request: its endpoint (open, read or close)
    fp2,        \* second request: FileReadReq.fp / FileCloseReq.fp
    resp2,      \* second request: what its caller receives
    COMMENTS,   \* comments: the process-wide table comments_search.COMMENTS
    csvFile,    \* comments: the comment file: whether it is there, and the rows
                \* csv.reader yields for it
    rowIdx,     \* comments: how many rows the loading loop has consumed
    before,     \* comments: the table as it was when the request began
    lookup      \* comments: the other request's get_comment: key and result

coreVars == <<pc, resp, calls, pending>>
classifyVars == <<status, exc>>
parseVars == <<raw, recs, cut, layout, parsed>>
readVars == <<device, addr, length>>
searchVars == <<filename, path, dir1811, dir1810, ec, files, start>>
plcDirVars == <<devCode, dirSize, matchPos, matchName>>
fileVars == <<chunk, fp, offset, content, nOpen, nRead, closeCalls>>
plcFileVars == <<devReads, fileSize, openHandles>>
commentVars == <<COMMENTS, csvFile, rowIdx, before, lookup>>
otherVars == <<pc2, op2, fp2, resp2, commentVars>>
vars == <<pc, resp, calls, pending, status, exc, raw, recs, cut, layout, parsed,
          device, addr, length,
          filename, path, dir1811, dir1810, ec, files, start,
          devCode, dirSize, matchPos, matchName,
          chunk, fp, offset, content, nOpen, nRead, closeCalls,
          devReads, fileSize, openHandles, pc2, op2, fp2, resp2,
          COMMENTS, csvFile, rowIdx, before, lookup>>

None == [none |-> TRUE]

(***************************************************************************)
(* Python str: code points.                                                *)
(***************************************************************************)
\* ord(c) for the characters the model writes as literals.
Digits == <<"0", "1", "2", "3", "4", "5", "6", "7", "8", "9">>

Uppers ==
    << "A", "B", "C", "D", "E", "F", "G", "H", "I", "J", "K", "L", "M",
       "N", "O", "P", "Q", "R", "S", "T", "U", "V", "W", "X", "Y", "Z" >>

Lowers ==
    << "a", "b", "c", "d", "e", "f", "g", "h", "i", "j", "k", "l", "m",
       "n", "o", "p", "q", "r", "s", "t", "u", "v", "w", "x", "y", "z" >>

IndexOf(t, c) == CHOOSE i \in 1..Len(t) : t[i] = c

Ord(c) ==
    CASE c = " " -> 32
      [] c = "$" -> 36
      [] c = "-" -> 45
      [] c = "." -> 46
      [] c = ":" -> 58
      [] c = "/" -> 92      \* "/" stands for the backslash in literals
      [] \E i \in 1..10 : Digits[i] = c -> 47 + IndexOf(Digits, c)
      [] \E i \in 1..26 : Uppers[i] = c -> 64 + IndexOf(Uppers, c)
      [] \E i \in 1..26 : Lowers[i] = c -> 96 + IndexOf(Lowers, c)

\* A string literal, written as a tuple of characters.
Str(t) == [i \in 1..Len(t) |-> Ord(t[i])]

\* str.upper() on the code points the model uses (ASCII letters; the other
\* code points of the model have no upper-case form).
UpperCp(cp) == IF cp >= 97 /\ cp <= 122 THEN cp - 32 ELSE cp

Upper(s) == [i \in 1..Len(s) |-> UpperCp(s[i])]

IsHexCp(cp) ==
    \/ cp >= 48 /\ cp <= 57
    \/ cp >= 65 /\ cp <= 70
    \/ cp >= 97 /\ cp <= 102

HexChar(d) == IF d < 10 THEN 48 + d ELSE 55 + d

RECURSIVE HexDigits(_)
HexDigits(n) ==
    IF n < 16 THEN <<HexChar(n)>>
    ELSE HexDigits(n \div 16) \o <<HexChar(n % 16)>>

\* format(n, "04X"): upper-case hex, zero-padded to four digits.
Format04X(n) ==
    LET d == HexDigits(n)
    IN  IF Len(d) >= 4 THEN d ELSE [i \in 1..(4 - Len(d)) |-> 48] \o d

RECURSIVE DecDigits(_)
DecDigits(n) ==
    IF n < 10 THEN <<48 + n>>
    ELSE DecDigits(n \div 10) \o <<48 + (n % 10)>>

\* str(n) of an int.
IntStr(n) == IF n < 0 THEN <<45>> \o DecDigits(0 - n) ELSE DecDigits(n)

(***************************************************************************)
(* mcprotocolerror.py                                                      *)
(***************************************************************************)
FILE_NOT_FOUND == 49233         \* 0xC051
DRIVE_NOT_FOUND == 49234        \* 0xC052
ACCESS_DENIED == 49235          \* 0xC053
UNSUPPORTED_COMMAND == 49241    \* 0xC059

EndCodes == 0..(2^16 - 1)

NoError == [raised |-> FALSE]

HexPrefix == Str(<<"0", "x">>)

\* "mc protocol error: error code "
MessagePrefix ==
    Str(<<"m","c"," ","p","r","o","t","o","c","o","l"," ",
          "e","r","r","o","r",":"," ","e","r","r","o","r"," ",
          "c","o","d","e"," ">>)

\* MCProtocolError.__init__(code), run for an object of class cls.
MCProtocolError(cls, code) ==
    [ raised |-> TRUE,
      cls    |-> cls,
      status |-> code,
      code   |-> HexPrefix \o Format04X(code),
      args0  |-> MessagePrefix \o HexPrefix \o Format04X(code) ]

UnsupportedComandError == MCProtocolError("UnsupportedComandError", UNSUPPORTED_COMMAND)

FileNotFoundError == MCProtocolError("FileNotFoundError", FILE_NOT_FOUND)

DriveNotFoundError == MCProtocolError("DriveNotFoundError", DRIVE_NOT_FOUND)

AccessDeniedError == MCProtocolError("AccessDeniedError", ACCESS_DENIED)

\* The end-code -> exception map; a class stands for "calling it".
error_map ==
    [ c \in {0, FILE_NOT_FOUND, DRIVE_NOT_FOUND, ACCESS_DENIED, UNSUPPORTED_COMMAND} |->
        CASE c = 0 -> None
          [] c = FILE_NOT_FOUND -> FileNotFoundError
          [] c = DRIVE_NOT_FOUND -> DriveNotFoundError
          [] c = ACCESS_DENIED -> AccessDeniedError
          [] c = UNSUPPORTED_COMMAND -> UnsupportedComandError ]

\* dict.get(key): None for a key that is not there.
error_map_get(key) == IF key \in DOMAIN error_map THEN error_map[key] ELSE None

check_mcprotocol_error_defaulted(code) ==
    IF code = 0 THEN NoError
    ELSE IF code \in DOMAIN error_map THEN error_map[code]
    ELSE UnsupportedComandError

check_mcprotocol_error_swapped(code) ==
    LET e == error_map_get(code)
    IN  IF e = None THEN NoError
        ELSE IF code = 0 THEN MCProtocolError("MCProtocolError", code)
        ELSE e

\* check_mcprotocol_error(status): NoError when it returns, else what it raises.
check_mcprotocol_error(code) ==
    LET e == error_map_get(code)
    IN  IF code = 0 THEN NoError
        ELSE IF e = None THEN MCProtocolError("MCProtocolError", code)
        ELSE e

\* ProtocolError.kind of the spec, read off the exception class.
Kind(e) ==
    CASE e.cls = "FileNotFoundError" -> "FileNotFound"
      [] e.cls = "DriveNotFoundError" -> "DriveNotFound"
      [] e.cls = "AccessDeniedError" -> "AccessDenied"
      [] e.cls = "UnsupportedComandError" -> "UnsupportedCommand"
      [] e.cls = "MCProtocolError" -> "Generic"

(***************************************************************************)
(* gateway.py: _parse_iqr                                                  *)
(***************************************************************************)
Min(a, b) == IF a < b THEN a ELSE b

\* b[lo:hi] of Python, lo and hi counted from 0 and clipped to the buffer.
Slice(b, lo, hi) == SubSeq(b, lo + 1, Min(hi, Len(b)))

\* int.from_bytes(b, "little")
RECURSIVE FromBytesLittle(_)
FromBytesLittle(b) ==
    IF b = <<>> THEN 0
    ELSE b[1] + 256 * FromBytesLittle(Tail(b))

\* A number below 2^32 as <<low 16 bits, high 16 bits>>: the file size is an
\* unsigned 32-bit number, which the model checker's integers cannot hold.
UInt32(n) == <<n % 65536, n \div 65536>>

\* int.from_bytes(b, "little") of a slice of at most 4 bytes, as UInt32.
FromBytesLittle32(b) ==
    <<FromBytesLittle(Slice(b, 0, 2)), FromBytesLittle(Slice(b, 2, 4))>>

IsHighSurrogate(u) == u >= 55296 /\ u <= 56319     \* D800..DBFF

IsLowSurrogate(u) == u >= 56320 /\ u <= 57343      \* DC00..DFFF

\* bytes.decode("utf-16le", "ignore"): a trailing odd byte, a lone surrogate
\* and a high surrogate with no low one after it are dropped.
RECURSIVE DecodeUtf16le(_)
DecodeUtf16le(b) ==
    IF Len(b) < 2 THEN <<>>
    ELSE
        LET u == b[1] + 256 * b[2]
            rest == SubSeq(b, 3, Len(b))
        IN  IF IsLowSurrogate(u) THEN DecodeUtf16le(rest)
            ELSE IF IsHighSurrogate(u) THEN
                IF Len(rest) >= 2 /\ IsLowSurrogate(rest[1] + 256 * rest[2])
                THEN <<65536 + (u - 55296) * 1024 + (rest[1] + 256 * rest[2] - 56320)>>
                     \o DecodeUtf16le(SubSeq(rest, 3, Len(rest)))
                ELSE DecodeUtf16le(rest)
            ELSE <<u>> \o DecodeUtf16le(rest)

\* str.rstrip("\x00")
RECURSIVE RStripNul(_)
RStripNul(s) ==
    IF s = <<>> \/ s[Len(s)] # 0 THEN s
    ELSE RStripNul(SubSeq(s, 1, Len(s) - 1))

\* str.partition("."): the text before the first ".", and the text after it.
Partition(s) ==
    IF \E i \in 1..Len(s) : s[i] = 46
    THEN LET d == CHOOSE i \in 1..Len(s) : s[i] = 46 /\ \A j \in 1..(i - 1) : s[j] # 46
         IN  [base |-> SubSeq(s, 1, d - 1), ext |-> SubSeq(s, d + 1, Len(s))]
    ELSE [base |-> s, ext |-> <<>>]

\* The loop's state: the read index, the entries collected, whether the loop
\* has ended, and whether it ended by raw[idx] reading past the end of the
\* buffer (IndexError).
ParseStart == [idx |-> 4, files |-> <<>>, done |-> FALSE, raised |-> FALSE]

\* The loop test and one run of the loop body.
ParseStep_SizeNotSkipped(b, st) ==
    IF st.idx + 2 > Len(b) THEN [st EXCEPT !.done = TRUE]
    ELSE
        LET chars == FromBytesLittle(Slice(b, st.idx, st.idx + 2))
            i1 == st.idx + 2
            name == RStripNul(DecodeUtf16le(Slice(b, i1, i1 + chars * 2)))
            i2 == i1 + chars * 2
            i3 == i2 + 1 + 9 + 3 + 4
            size == FromBytesLittle32(Slice(b, i3, i3 + 4))
            p == Partition(name)
        IN  IF chars \in {0, 65535} THEN [st EXCEPT !.done = TRUE]
            ELSE IF i2 >= Len(b) THEN [st EXCEPT !.done = TRUE, !.raised = TRUE]
            ELSE [st EXCEPT !.idx = i3,
                            !.files = Append(st.files,
                                             [name |-> p.base, ext |-> p.ext,
                                              size |-> size, attribute |-> b[i2 + 1]])]

ParseStep_ZeroIsACount(b, st) ==
    IF st.idx + 2 > Len(b) THEN [st EXCEPT !.done = TRUE]
    ELSE
        LET chars == FromBytesLittle(Slice(b, st.idx, st.idx + 2))
            i1 == st.idx + 2
            name == RStripNul(DecodeUtf16le(Slice(b, i1, i1 + chars * 2)))
            i2 == i1 + chars * 2
            i3 == i2 + 1 + 9 + 3 + 4
            size == FromBytesLittle32(Slice(b, i3, i3 + 4))
            p == Partition(name)
        IN  IF chars = 65535 THEN [st EXCEPT !.done = TRUE]
            ELSE IF i2 >= Len(b) THEN [st EXCEPT !.done = TRUE, !.raised = TRUE]
            ELSE [st EXCEPT !.idx = i3 + 4,
                            !.files = Append(st.files,
                                             [name |-> p.base, ext |-> p.ext,
                                              size |-> size, attribute |-> b[i2 + 1]])]

ParseStep(b, st) ==
    IF st.idx + 2 > Len(b) THEN [st EXCEPT !.done = TRUE]
    ELSE
        LET chars == FromBytesLittle(Slice(b, st.idx, st.idx + 2))
            i1 == st.idx + 2
            name == RStripNul(DecodeUtf16le(Slice(b, i1, i1 + chars * 2)))
            i2 == i1 + chars * 2
            i3 == i2 + 1 + 9 + 3 + 4
            size == FromBytesLittle32(Slice(b, i3, i3 + 4))
            p == Partition(name)
        IN  IF chars \in {0, 65535} THEN [st EXCEPT !.done = TRUE]
            ELSE IF i2 >= Len(b) THEN [st EXCEPT !.done = TRUE, !.raised = TRUE]
            ELSE [st EXCEPT !.idx = i3 + 4,
                            !.files = Append(st.files,
                                             [name |-> p.base, ext |-> p.ext,
                                              size |-> size, attribute |-> b[i2 + 1]])]

\* Up to n runs of the loop body.
RECURSIVE ParseSteps(_, _, _)
ParseSteps(b, st, n) ==
    IF n = 0 \/ st.done THEN st
    ELSE ParseSteps(b, ParseStep(b, st), n - 1)

\* The while loop, run to its end sixteen iterations at a time.
RECURSIVE ParseLoop(_, _)
ParseLoop(b, st) ==
    IF st.done THEN st
    ELSE ParseLoop(b, ParseSteps(b, st, 16))

\* _parse_iqr(raw): the entries returned, or raised and no entries.
parse_iqr(b) ==
    LET end == ParseLoop(b, ParseStart)
    IN  [files |-> IF end.raised THEN <<>> ELSE end.files, raised |-> end.raised]

(***************************************************************************)
(* Listing buffers in the layout _parse_iqr reads: a 4-byte header, then   *)
(* per record a 2-byte character count, the name in UTF-16LE, the          *)
(* attribute byte, 16 bytes of reserved area and time stamp, and the size  *)
(* in 4 bytes; 0xFFFF ends the listing.                                    *)
(***************************************************************************)
RECURSIVE ToBytesLittle(_, _)
ToBytesLittle(n, width) ==
    IF width = 0 THEN <<>>
    ELSE <<n % 256>> \o ToBytesLittle(n \div 256, width - 1)

\* str.encode("utf-16le") of a name of code points below 0x10000.
RECURSIVE EncodeUtf16le(_)
EncodeUtf16le(s) ==
    IF s = <<>> THEN <<>>
    ELSE <<s[1] % 256, s[1] \div 256>> \o EncodeUtf16le(Tail(s))

Filler == [i \in 1..16 |-> i]

EncodeRecord(e) ==
    ToBytesLittle(Len(e.fullname), 2) \o EncodeUtf16le(e.fullname)
        \o <<e.attribute>> \o Filler \o ToBytesLittle(e.size, 4)

\* The records es[lo..hi], one after the other.
RECURSIVE EncodeRecords(_, _, _)
EncodeRecords(es, lo, hi) ==
    IF lo > hi THEN <<>>
    ELSE IF lo = hi THEN EncodeRecord(es[lo])
    ELSE LET mid == (lo + hi) \div 2
         IN  EncodeRecords(es, lo, mid) \o EncodeRecords(es, mid + 1, hi)

Terminator == <<255, 255>>

EncodeListing(es) ==
    ToBytesLittle(Len(es), 2) \o <<0, 0>> \o EncodeRecords(es, 1, Len(es)) \o Terminator

(***************************************************************************)
(* Listing buffers in the layout of the decoding algorithm of spec 4.2:    *)
(* per record a 2-byte file number, the 2-byte length of the variable      *)
(* tail, the fixed fields (attribute word, reserved, time and date,        *)
(* reserved, size), and the tail: the 2-byte big-endian length of the link *)
(* info, the link info, the name in UTF-16LE and last the 2-byte           *)
(* big-endian character count.  The fixed block has 18 bytes, the link     *)
(* info is empty.                                                          *)
(***************************************************************************)
ToBytesBig(n, width) == [i \in 1..width |-> ToBytesLittle(n, width)[width + 1 - i]]

TailOf(e) ==
    ToBytesBig(0, 2) \o EncodeUtf16le(e.fullname) \o ToBytesBig(Len(e.fullname), 2)

EncodeRecordReverse(e, no) ==
    ToBytesLittle(no, 2) \o ToBytesLittle(Len(TailOf(e)), 2)
        \o ToBytesLittle(e.attribute, 2) \o <<0, 0>> \o <<1, 2, 3, 4>> \o <<0, 0>>
        \o ToBytesLittle(e.size, 4) \o TailOf(e)

RECURSIVE EncodeRecordsReverse(_, _)
EncodeRecordsReverse(es, n) ==
    IF n = 0 THEN <<>>
    ELSE EncodeRecordsReverse(es, n - 1) \o EncodeRecordReverse(es[n], n)

EncodeListingReverse(es) ==
    ToBytesLittle(Len(es), 2) \o <<0, 0>> \o EncodeRecordsReverse(es, Len(es)) \o Terminator

\* The entry a whole record decodes to.
EntryOf(e) ==
    LET p == Partition(RStripNul(e.fullname))
    IN  [name |-> p.base, ext |-> p.ext, size |-> UInt32(e.size), attribute |-> e.attribute]

(***************************************************************************)
(* gateway.py: _read_plc and api_read                                      *)
(***************************************************************************)
WordDevices_NoZR == {Str(<<"D">>), Str(<<"W">>), Str(<<"R">>)}

WordDevices == {Str(<<"D">>), Str(<<"W">>), Str(<<"R">>), Str(<<"Z", "R">>)}

BitDevices == {Str(<<"X">>), Str(<<"Y">>), Str(<<"M">>)}

Call(fn, args) == [fn |-> fn, args |-> args]

\* The PLC's device memory, as the batch reads return it.
WordAt(a) == (a * 7 + 3) % 65536

BitAt(a) == a % 2

WordValues(a, n) == [i \in 1..n |-> WordAt(a + i - 1)]

BitValues(a, n) == [i \in 1..n |-> BitAt(a + i - 1)]

Return(v) == [kind |-> "return", value |-> v]

Raise(e) == [kind |-> "raise", error |-> e]

\* plc.connect(ip, port), before the try block: a failure leaves _read_plc at
\* once and api_read turns it into a 500.
ReadConnect ==
    /\ pc = "read_connect"
    /\ calls' = Append(calls, Call("connect", <<>>))
    /\ \/ /\ pc' = "read_try"
          /\ resp' = resp
       \/ /\ pc' = "read_done"
          /\ resp' = [status |-> 500, detail |-> "transport"]
    /\ UNCHANGED <<otherVars, pending, classifyVars, parseVars, readVars, searchVars, plcDirVars, fileVars, plcFileVars>>

\* The try block: the batch read of the device class, or ValueError.
ReadBatch ==
    /\ pc = "read_try"
    /\ LET upper == Upper(device)
       IN  IF upper \in WordDevices THEN
               /\ calls' = Append(calls, Call("batchread_wordunits",
                                              <<upper \o IntStr(addr), length>>))
               /\ \/ pending' = Return(WordValues(addr, length))
                  \/ pending' = Raise("transport")
           ELSE IF upper \in BitDevices THEN
               /\ calls' = Append(calls, Call("batchread_bitunits",
                                              <<upper \o IntStr(addr), length>>))
               /\ \/ pending' = Return(BitValues(addr, length))
                  \/ pending' = Raise("transport")
           ELSE
               /\ calls' = calls
               /\ pending' = Raise("ValueError")
    /\ pc' = "read_finally"
    /\ UNCHANGED <<otherVars, resp, classifyVars, parseVars, readVars, searchVars, plcDirVars, fileVars, plcFileVars>>

ReadClose_OnSuccessOnly ==
    /\ pc = "read_finally"
    /\ calls' = IF pending.kind = "return" THEN Append(calls, Call("close", <<>>)) ELSE calls
    /\ \/ resp' = IF pending.kind = "return"
                   THEN [status |-> 200, values |-> pending.value]
                   ELSE [status |-> 500, detail |-> pending.error]
       \/ resp' = [status |-> 500, detail |-> "transport"]
    /\ pc' = "read_done"
    /\ UNCHANGED <<otherVars, pending, classifyVars, parseVars, readVars, searchVars, plcDirVars, fileVars, plcFileVars>>

\* finally: plc.close(); then api_read answers with the values, or with a 500
\* for whatever was raised (a failing close included).
ReadClose ==
    /\ pc = "read_finally"
    /\ calls' = Append(calls, Call("close", <<>>))
    /\ \/ resp' = IF pending.kind = "return"
                   THEN [status |-> 200, values |-> pending.value]
                   ELSE [status |-> 500, detail |-> pending.error]
       \/ resp' = [status |-> 500, detail |-> "transport"]
    /\ pc' = "read_done"
    /\ UNCHANGED <<otherVars, pending, classifyVars, parseVars, readVars, searchVars, plcDirVars, fileVars, plcFileVars>>

(***************************************************************************)
(* gateway.py: api_filesearch                                              *)
(***************************************************************************)
Backslash == 92

RECURSIVE RStripBackslash(_)
RStripBackslash(s) ==
    IF s = <<>> \/ s[Len(s)] # Backslash THEN s
    ELSE RStripBackslash(SubSeq(s, 1, Len(s) - 1))

MELPRJ == Str(<<"$", "M", "E", "L", "P", "R", "J", "$">>)

\* The directory of the direct search (1811h) for a requested path.
Dir1811(p) ==
    IF p = <<>> THEN <<>>
    ELSE IF p[1] = 36 THEN RStripBackslash(p) \o <<Backslash>>
    ELSE RStripBackslash(MELPRJ \o <<Backslash>> \o p) \o <<Backslash>>

Dir1810_NoStrip(p) ==
    IF p = <<>> THEN MELPRJ
    ELSE IF p[1] = 36 THEN p
    ELSE MELPRJ \o <<Backslash>> \o p

\* The directory of the enumeration (1810h) for a requested path.
Dir1810(p) ==
    IF p = <<>> THEN MELPRJ
    ELSE IF p[1] = 36 THEN RStripBackslash(p)
    ELSE RStripBackslash(MELPRJ \o <<Backslash>> \o p)

\* How many hex digits s holds from position i on.
RECURSIVE HexRun(_, _)
HexRun(s, i) ==
    IF i > Len(s) \/ ~IsHexCp(s[i]) THEN 0
    ELSE 1 + HexRun(s, i + 1)

\* re.search("0x[0-9A-Fa-f]+", s): the leftmost match, as long as it gets; None
\* when there is none.
HexSearch(s) ==
    LET At(i) == i + 2 <= Len(s) /\ s[i] = 48 /\ s[i + 1] = 120 /\ IsHexCp(s[i + 2])
    IN  IF \E i \in 1..Len(s) : At(i)
        THEN LET i == CHOOSE k \in 1..Len(s) : At(k) /\ \A j \in 1..(k - 1) : ~At(j)
             IN  SubSeq(s, i, i + 1 + HexRun(s, i + 2))
        ELSE None

\* The end-code text of a caught MCProtocolError: the exception has no
\* attribute "errorcode", and args[0] is its message, a str.
ErrorCodeText(ex) ==
    LET m == HexSearch(ex.args0)
    IN  IF m = None THEN ex.args0 ELSE m

\* "0XC061", the text the fallback is taken for.
FallbackCode == Str(<<"0", "X", "C", "0", "6", "1">>)

TakesFallback_Always(e) == TRUE

\* The test that lets the except clause go on to the enumeration.
TakesFallback(e) == Upper(e) = FallbackCode

LastPage_OnlyEmpty(cnt) == cnt = 0

LastPage_OrFull(cnt) == cnt <= 256

\* The enumeration's break: the page reported fewer entries than asked for.
LastPage(cnt) == cnt < 256

request_count == 256

Http(code, e) == [kind |-> "http", status |-> code, ec |-> e]

SearchFailure_Always500(e) == Http(500, e)

\* The HTTPException of step 3.
SearchFailure(e) == Http(IF Upper(e) = FallbackCode THEN 404 ELSE 500, e)

\* The entries whose "name.ext" is the requested name, ignoring case.
Hits(fs, wanted) ==
    LET IsHit(f) == Upper(f.name \o <<46>> \o f.ext) = Upper(wanted)
    IN  SelectSeq(fs, IsHit)

(***************************************************************************)
(* The PLC's directory and the two listing commands of the transport.      *)
(***************************************************************************)
DirEntry(i) ==
    IF i = matchPos THEN [fullname |-> matchName, attribute |-> 32, size |-> 5000]
    ELSE IF i % 2 = 0 THEN [fullname |-> Str(<<"A", ".", "B">>), attribute |-> 32, size |-> i]
    ELSE [fullname |-> Str(<<"S", "U", "B">>), attribute |-> 16, size |-> 0]

\* The count the PLC reports for a page of count entries from first on.
PageCount(first, count) ==
    IF dirSize - first + 1 < 0 THEN 0 ELSE Min(count, dirSize - first + 1)

\* read_directory_fileinfo(start_file_no, request_count): the count the PLC
\* reports and the raw listing of the entries from start_file_no on.
ListPage(first, count) ==
    LET cnt == PageCount(first, count)
    IN  [cnt |-> cnt, raw |-> EncodeListing([i \in 1..cnt |-> DirEntry(first + i - 1)])]

\* read_search_fileinfo on success: the listing of the entry found.
SearchReply ==
    EncodeListing(IF matchPos = 0 THEN <<>> ELSE <<DirEntry(matchPos)>>)

\* plc.connect and the path normalisation, both before the try block.
SearchConnect ==
    /\ pc = "search_connect"
    /\ calls' = Append(calls, Call("connect", <<>>))
    /\ \/ /\ pc' = "search_direct"
          /\ dir1811' = Dir1811(path)
          /\ dir1810' = Dir1810(path)
          /\ resp' = resp
       \/ /\ pc' = "search_done"
          /\ resp' = [status |-> 500, detail |-> "transport"]
          /\ UNCHANGED <<dir1811, dir1810>>
    /\ UNCHANGED <<otherVars, pending, classifyVars, parseVars, readVars, filename, path,
                   ec, files, start, plcDirVars, fileVars, plcFileVars>>

\* Step 1, the direct search, and the except clause up to the fallback test.
SearchDirect ==
    /\ pc = "search_direct"
    /\ calls' = Append(calls, Call("read_search_fileinfo", <<filename, dir1811>>))
    /\ \/ /\ devCode = 0
          /\ pending' = IF parse_iqr(SearchReply).raised THEN Raise("IndexError")
                         ELSE Return(parse_iqr(SearchReply).files)
          /\ pc' = "search_finally"
          /\ UNCHANGED <<ec, files, start>>
       \/ /\ devCode # 0
          /\ ec' = ErrorCodeText(check_mcprotocol_error(devCode))
          /\ IF TakesFallback(ec')
             THEN /\ files' = <<>>
                  /\ start' = 1
                  /\ pc' = "search_enum"
                  /\ pending' = pending
             ELSE /\ pending' = SearchFailure(ec')
                  /\ pc' = "search_finally"
                  /\ UNCHANGED <<files, start>>
       \/ /\ pending' = Raise("transport")
          /\ pc' = "search_finally"
          /\ UNCHANGED <<ec, files, start>>
    /\ UNCHANGED <<otherVars, resp, classifyVars, parseVars, readVars, filename, path,
                   dir1811, dir1810, plcDirVars, fileVars, plcFileVars>>

\* Step 2, one page of the enumeration; after the last page the filter and
\* the answer.  A call that raises here raises out of the except clause.
SearchEnum ==
    /\ pc = "search_enum"
    /\ calls' = Append(calls, Call("read_directory_fileinfo",
                                   <<start, request_count, dir1810>>))
    /\ \/ LET page == ListPage(start, request_count)
              got == parse_iqr(page.raw)
              all == files \o got.files
          IN  IF got.raised THEN
                  /\ pending' = Raise("IndexError")
                  /\ pc' = "search_finally"
                  /\ UNCHANGED <<files, start>>
              ELSE IF LastPage(page.cnt) THEN
                  /\ files' = all
                  /\ pending' = IF Hits(all, filename) # <<>>
                                 THEN Return(Hits(all, filename))
                                 ELSE SearchFailure(ec)
                  /\ pc' = "search_finally"
                  /\ start' = start
              ELSE
                  /\ files' = all
                  /\ start' = start + page.cnt
                  /\ UNCHANGED <<pc, pending>>
       \/ /\ pending' = Raise("transport")
          /\ pc' = "search_finally"
          /\ UNCHANGED <<files, start>>
    /\ UNCHANGED <<otherVars, resp, classifyVars, parseVars, readVars, filename, path,
                   dir1811, dir1810, ec, plcDirVars, fileVars, plcFileVars>>

SearchClose_Skipped ==
    /\ pc = "search_finally"
    /\ calls' = IF pending.kind = "return" THEN Append(calls, Call("close", <<>>)) ELSE calls
    /\ resp' = CASE pending.kind = "return" -> [status |-> 200, files |-> pending.value]
                  [] pending.kind = "http" -> [status |-> pending.status, ec |-> pending.ec]
                  [] pending.kind = "raise" -> [status |-> 500, detail |-> pending.error]
    /\ pc' = "search_done"
    /\ UNCHANGED <<otherVars, pending, classifyVars, parseVars, readVars, searchVars, plcDirVars, fileVars, plcFileVars>>

\* finally: plc.close(); then the answer that was waiting, or a 500 when
\* close itself raises.
SearchClose ==
    /\ pc = "search_finally"
    /\ calls' = Append(calls, Call("close", <<>>))
    /\ \/ resp' = CASE pending.kind = "return" -> [status |-> 200, files |-> pending.value]
                     [] pending.kind = "http" -> [status |-> pending.status, ec |-> pending.ec]
                     [] pending.kind = "raise" -> [status |-> 500, detail |-> pending.error]
       \/ resp' = [status |-> 500, detail |-> "transport"]
    /\ pc' = "search_done"
    /\ UNCHANGED <<otherVars, pending, classifyVars, parseVars, readVars, searchVars, plcDirVars, fileVars, plcFileVars>>

(***************************************************************************)
(* PlcFileControl (file_ctl) and the PLC's file: open_file, read_file and  *)
(* close_file as the gateway uses them.                                    *)
(***************************************************************************)
MAX_CHUNK == 1920

MaxHandles == 2

\* The handles the PLC gives out.
Handles == 1..MaxHandles

\* The byte at position i of the PLC's file.
FileByte(i) == (i * 37 + 11) % 256

\* What the PLC returns for a read of n bytes at off: the bytes that are
\* there, at most n.
FileData(off, n) ==
    LET k == IF fileSize - off < 0 THEN 0 ELSE Min(n, fileSize - off)
    IN  [i \in 1..k |-> FileByte(off + i - 1)]

read_file_accepts_any(n) == TRUE

\* read_file's own check of the length, made before the read-file command is
\* sent.
read_file_accepts(n) == n >= 1 /\ n <= MAX_CHUNK

(***************************************************************************)
(* gateway.py: api_file_read                                               *)
(***************************************************************************)
\* The whole handler: file_ctl.read_file(fp, offset, length), answered with
\* the size and the data, or with a 500 for whatever it raised.
ApiFileRead ==
    /\ pc = "file_read"
    /\ nRead' = nRead + 1
    /\ IF ~read_file_accepts(length) THEN
           /\ resp' = [status |-> 500, detail |-> "InvalidArgument"]
           /\ devReads' = devReads
       ELSE
           /\ devReads' = devReads + 1
           /\ \/ /\ fp \in openHandles
                 /\ resp' = [status |-> 200, size |-> Len(FileData(offset, length)),
                              data |-> FileData(offset, length)]
              \/ /\ fp \notin openHandles
                 /\ resp' = [status |-> 500, detail |-> "MCProtocolError"]
              \/ resp' = [status |-> 500, detail |-> "transport"]
    /\ pc' = "file_read_done"
    /\ UNCHANGED <<otherVars, calls, pending, classifyVars, parseVars, readVars, searchVars,
                   plcDirVars, chunk, fp, offset, content, nOpen, closeCalls,
                   fileSize, openHandles>>

(***************************************************************************)
(* gateway.py: api_file_readall                                            *)
(***************************************************************************)
IsLastChunk_OrFull(part, c) == Len(part) <= c

\* The loop's second break: the chunk came back short.
IsLastChunk(part, c) == Len(part) < c

ChunkOk_ZeroAllowed(c) == ~(c < 0 \/ c > MAX_CHUNK)

\* The check of req.chunk the handler starts with.
ChunkOk(c) == ~(c <= 0 \/ c > MAX_CHUNK)

ReadAllOpen_InsideTry ==
    /\ pc = "readall_start"
    /\ IF ~ChunkOk(chunk) THEN
           /\ resp' = [status |-> 400, detail |-> "chunk"]
           /\ pc' = "readall_done"
           /\ UNCHANGED <<calls, fp, offset, content, nOpen, openHandles, pending>>
       ELSE
           /\ nOpen' = nOpen + 1
           /\ calls' = Append(calls, Call("open_file", <<>>))
           /\ \/ \E h \in Handles \ openHandles :
                    /\ fp' = h
                    /\ openHandles' = openHandles \cup {h}
                    /\ offset' = 0
                    /\ content' = <<>>
                    /\ pc' = "readall_loop"
                    /\ UNCHANGED <<resp, pending>>
              \/ /\ pending' = Raise("open_file")
                 /\ pc' = "readall_finally"
                 /\ UNCHANGED <<resp, fp, offset, content, openHandles>>
    /\ UNCHANGED <<otherVars, classifyVars, parseVars, readVars, searchVars,
                   plcDirVars, chunk, nRead, closeCalls, devReads, fileSize>>

\* The chunk check and step 1, open_file: a 400 for a bad chunk, a 500 when
\* open_file raises.
ReadAllOpen ==
    /\ pc = "readall_start"
    /\ IF ~ChunkOk(chunk) THEN
           /\ resp' = [status |-> 400, detail |-> "chunk"]
           /\ pc' = "readall_done"
           /\ UNCHANGED <<calls, fp, offset, content, nOpen, openHandles>>
       ELSE
           /\ nOpen' = nOpen + 1
           /\ calls' = Append(calls, Call("open_file", <<>>))
           /\ \/ \E h \in Handles \ openHandles :
                    /\ fp' = h
                    /\ openHandles' = openHandles \cup {h}
                    /\ offset' = 0
                    /\ content' = <<>>
                    /\ pc' = "readall_loop"
                    /\ resp' = resp
              \/ /\ resp' = [status |-> 500, detail |-> "open_file"]
                 /\ pc' = "readall_done"
                 /\ UNCHANGED <<fp, offset, content, openHandles>>
    /\ UNCHANGED <<otherVars, pending, classifyVars, parseVars, readVars, searchVars,
                   plcDirVars, chunk, nRead, closeCalls, devReads, fileSize>>

NextOffset_Stays(off, c) == off

NextOffset_SkipsOne(off, c) == off + c + 1

\* The loop's last statement: offset += req.chunk.
NextOffset(off, c) == off + c

\* Step 2, one run of the read loop.
ReadAllRead ==
    /\ pc = "readall_loop"
    /\ nRead' = nRead + 1
    /\ calls' = Append(calls, Call("read_file", <<fp, offset, chunk>>))
    /\ IF ~read_file_accepts(chunk) THEN
           /\ pending' = Raise("InvalidArgument")
           /\ pc' = "readall_finally"
           /\ UNCHANGED <<offset, content, devReads>>
       ELSE
           /\ devReads' = devReads + 1
           /\ \/ /\ fp \in openHandles
                 /\ LET part == FileData(offset, chunk)
                    IN  IF part = <<>> THEN
                            /\ pc' = "readall_save"
                            /\ UNCHANGED <<offset, content>>
                        ELSE IF IsLastChunk(part, chunk) THEN
                            /\ content' = content \o part
                            /\ pc' = "readall_save"
                            /\ offset' = offset
                        ELSE
                            /\ content' = content \o part
                            /\ offset' = NextOffset(offset, chunk)
                            /\ pc' = pc
                 /\ pending' = pending
              \/ /\ pending' = Raise("read_file")
                 /\ pc' = "readall_finally"
                 /\ UNCHANGED <<offset, content>>
    /\ UNCHANGED <<otherVars, resp, classifyVars, parseVars, readVars, searchVars,
                   plcDirVars, chunk, fp, nOpen, closeCalls, fileSize, openHandles>>

ReadAllSave_ClosesToo ==
    /\ pc = "readall_save"
    /\ calls' = Append(calls, Call("close_file", <<fp>>))
    /\ \/ pending' = Return([bytes_read |-> Len(content)])
       \/ pending' = Raise("OSError")
    /\ pc' = "readall_finally"
    /\ UNCHANGED <<otherVars, resp, classifyVars, parseVars, readVars, searchVars,
                   plcDirVars, fileVars, plcFileVars>>

\* Steps 3 and 4: the JSON record is written and the answer is made, or the
\* write raises.
ReadAllSave ==
    /\ pc = "readall_save"
    /\ \/ pending' = Return([bytes_read |-> Len(content)])
       \/ pending' = Raise("OSError")
    /\ pc' = "readall_finally"
    /\ UNCHANGED <<otherVars, resp, calls, classifyVars, parseVars, readVars, searchVars,
                   plcDirVars, fileVars, plcFileVars>>

ReadAllClose_OnSuccessOnly ==
    /\ pc = "readall_finally"
    /\ closeCalls' = IF pending.kind = "return" THEN Append(closeCalls, fp) ELSE closeCalls
    /\ calls' = IF pending.kind = "return"
                 THEN Append(calls, Call("close_file", <<fp>>)) ELSE calls
    /\ openHandles' = IF pending.kind = "return" THEN openHandles \ {fp} ELSE openHandles
    /\ resp' = IF pending.kind = "return"
                THEN [status |-> 200, bytes_read |-> pending.value.bytes_read]
                ELSE [status |-> 500, detail |-> pending.error]
    /\ pc' = "readall_done"
    /\ UNCHANGED <<otherVars, pending, classifyVars, parseVars, readVars, searchVars,
                   plcDirVars, chunk, fp, offset, content, nOpen, nRead,
                   devReads, fileSize>>

ReadAllClose_Masking ==
    /\ pc = "readall_finally"
    /\ closeCalls' = Append(closeCalls, fp)
    /\ calls' = Append(calls, Call("close_file", <<fp>>))
    /\ \/ /\ openHandles' = openHandles \ {fp}
          /\ resp' = IF pending.kind = "return"
                      THEN [status |-> 200, bytes_read |-> pending.value.bytes_read]
                      ELSE [status |-> 500, detail |-> pending.error]
       \/ /\ openHandles' = openHandles
          /\ resp' = [status |-> 500, detail |-> "close_file"]
    /\ pc' = "readall_done"
    /\ UNCHANGED <<otherVars, pending, classifyVars, parseVars, readVars, searchVars,
                   plcDirVars, chunk, fp, offset, content, nOpen, nRead,
                   devReads, fileSize>>

ReadAllClose_ReturnsAnyway ==
    /\ pc = "readall_finally"
    /\ closeCalls' = Append(closeCalls, fp)
    /\ calls' = Append(calls, Call("close_file", <<fp>>))
    /\ \/ openHandles' = openHandles \ {fp}
       \/ openHandles' = openHandles
    /\ resp' = [status |-> 200, bytes_read |-> Len(content)]
    /\ pc' = "readall_done"
    /\ UNCHANGED <<otherVars, pending, classifyVars, parseVars, readVars, searchVars,
                   plcDirVars, chunk, fp, offset, content, nOpen, nRead,
                   devReads, fileSize>>

\* Step 5, finally: close_file, whose own failure is passed over; then the
\* answer that was waiting, or a 500 for the exception that was.
ReadAllClose ==
    /\ pc = "readall_finally"
    /\ closeCalls' = Append(closeCalls, fp)
    /\ calls' = Append(calls, Call("close_file", <<fp>>))
    /\ \/ openHandles' = openHandles \ {fp}
       \/ openHandles' = openHandles
    /\ resp' = IF pending.kind = "return"
                THEN [status |-> 200, bytes_read |-> pending.value.bytes_read]
                ELSE [status |-> 500, detail |-> pending.error]
    /\ pc' = "readall_done"
    /\ UNCHANGED <<otherVars, pending, classifyVars, parseVars, readVars, searchVars,
                   plcDirVars, chunk, fp, offset, content, nOpen, nRead,
                   devReads, fileSize>>

(***************************************************************************)
(* gateway.py: api_file_open, api_file_read and api_file_close, as a       *)
(* second request served while an api_file_readall request is running.     *)
(* All requests go through the one module-level file_ctl object.           *)
(***************************************************************************)
DEFAULT_LENGTH == 1024

\* api_file_open: the handle open_file returned, or a 500.
OtherFileOpen ==
    /\ pc2 = "other_start"
    /\ op2 = "open"
    /\ \/ \E h \in Handles \ openHandles :
             /\ openHandles' = openHandles \cup {h}
             /\ resp2' = [status |-> 200, fp |-> h]
       \/ /\ resp2' = [status |-> 500, detail |-> "open_file"]
          /\ openHandles' = openHandles
    /\ pc2' = "other_done"
    /\ UNCHANGED <<commentVars, coreVars, classifyVars, parseVars, readVars, searchVars,
                   plcDirVars, fileVars, devReads, fileSize, op2, fp2>>

\* api_file_read with the request's fp, offset 0 and the default length.
OtherFileRead ==
    /\ pc2 = "other_start"
    /\ op2 = "read"
    /\ devReads' = devReads + 1
    /\ \/ /\ fp2 \in openHandles
          /\ resp2' = [status |-> 200, size |-> Len(FileData(0, DEFAULT_LENGTH)),
                        data |-> FileData(0, DEFAULT_LENGTH)]
       \/ /\ fp2 \notin openHandles
          /\ resp2' = [status |-> 500, detail |-> "MCProtocolError"]
       \/ resp2' = [status |-> 500, detail |-> "transport"]
    /\ pc2' = "other_done"
    /\ UNCHANGED <<commentVars, coreVars, classifyVars, parseVars, readVars, searchVars,
                   plcDirVars, fileVars, fileSize, openHandles, op2, fp2>>

\* api_file_close with the request's fp.
OtherFileClose ==
    /\ pc2 = "other_start"
    /\ op2 = "close"
    /\ \/ /\ fp2 \in openHandles
          /\ openHandles' = openHandles \ {fp2}
          /\ resp2' = [status |-> 200, result |-> "ok"]
       \/ /\ fp2 \notin openHandles
          /\ openHandles' = openHandles
          /\ resp2' = [status |-> 500, detail |-> "MCProtocolError"]
       \/ /\ openHandles' = openHandles
          /\ resp2' = [status |-> 500, detail |-> "transport"]
    /\ pc2' = "other_done"
    /\ UNCHANGED <<commentVars, coreVars, classifyVars, parseVars, readVars, searchVars,
                   plcDirVars, fileVars, devReads, fileSize, op2, fp2>>

(***************************************************************************)
(* SpecClassify: the classifier on every 16-bit end-code.                  *)
(***************************************************************************)
CoreIdle ==
    /\ resp = None
    /\ calls = <<>>
    /\ pending = None

ClassifyIdle ==
    /\ status = 0
    /\ exc = NoError

ParseIdle ==
    /\ raw = <<>>
    /\ recs = <<>>
    /\ cut = 0
    /\ layout = ""
    /\ parsed = None

ReadIdle ==
    /\ device = <<>>
    /\ addr = 0
    /\ length = 0

SearchIdle ==
    /\ filename = <<>>
    /\ path = <<>>
    /\ dir1811 = <<>>
    /\ dir1810 = <<>>
    /\ ec = <<>>
    /\ files = <<>>
    /\ start = 0
    /\ devCode = 0
    /\ dirSize = 0
    /\ matchPos = 0
    /\ matchName = <<>>

FileIdle ==
    /\ chunk = 0
    /\ fp = 0
    /\ offset = 0
    /\ content = <<>>
    /\ nOpen = 0
    /\ nRead = 0
    /\ closeCalls = <<>>
    /\ devReads = 0
    /\ fileSize = 0
    /\ openHandles = {}

CommentIdle ==
    /\ COMMENTS = <<>>
    /\ csvFile = [exists |-> FALSE, rows |-> <<>>]
    /\ rowIdx = 0
    /\ before = <<>>
    /\ lookup = None

OtherIdle ==
    /\ pc2 = "idle"
    /\ op2 = ""
    /\ fp2 = 0
    /\ resp2 = None
    /\ CommentIdle

InitClassify ==
    /\ OtherIdle
    /\ pc = "classify"
    /\ CoreIdle
    /\ status \in EndCodes
    /\ exc = NoError
    /\ ParseIdle
    /\ ReadIdle
    /\ SearchIdle
    /\ FileIdle

Classify ==
    /\ pc = "classify"
    /\ exc' = check_mcprotocol_error(status)
    /\ pc' = IF exc'.raised THEN "classify_raised" ELSE "classify_returned"
    /\ UNCHANGED <<otherVars, resp, calls, pending, status, parseVars, readVars, searchVars, plcDirVars, fileVars, plcFileVars>>

NextClassify == Classify

SpecClassify == InitClassify /\ [][NextClassify]_vars

(***************************************************************************)
(* SpecParse: _parse_iqr on listings of up to MaxRecs records, whole and   *)
(* cut at every byte position.                                             *)
(***************************************************************************)
MaxRecs == 2

ParseEntries ==
    { [fullname |-> Str(<<"A">>), attribute |-> 32, size |-> 1],
      [fullname |-> Str(<<"B", ".", "C">>), attribute |-> 16, size |-> 66051],
      [fullname |-> <<0>>, attribute |-> 32, size |-> 258],
      [fullname |-> <<>>, attribute |-> 16, size |-> 0] }

RecordLists == UNION { [1..n -> ParseEntries] : n \in 0..MaxRecs }

\* The two values of the leading field that end the loop, and what a buffer
\* may hold after one of them.
Sentinels == [sentinel_ffff |-> <<255, 255>>, sentinel_zero |-> <<0, 0>>]

Trailers ==
    { <<>>, <<7>>,
      EncodeRecord([fullname |-> Str(<<"Z">>), attribute |-> 32, size |-> 9]),
      <<255, 255>>
          \o EncodeRecord([fullname |-> Str(<<"Z">>), attribute |-> 32, size |-> 9]) }

\* The buffers given to the decoder, each with the records it was built
\* from, its layout and its length.
ParseInputs ==
    UNION { { [recs |-> r, layout |-> "leading_count", cut |-> c,
               raw |-> SubSeq(EncodeListing(r), 1, c)] : c \in 0..Len(EncodeListing(r)) }
            \cup { [recs |-> r, layout |-> "reverse_walked",
                    cut |-> Len(EncodeListingReverse(r)), raw |-> EncodeListingReverse(r)] }
            \cup { [recs |-> r, layout |-> l,
                    cut |-> 4 + Len(EncodeRecords(r, 1, Len(r))) + 2 + Len(t),
                    raw |-> ToBytesLittle(Len(r), 2) \o <<0, 0>>
                                \o EncodeRecords(r, 1, Len(r)) \o Sentinels[l] \o t]
                    : l \in DOMAIN Sentinels, t \in Trailers }
            : r \in RecordLists }

InitParse ==
    /\ OtherIdle
    /\ pc = "parse"
    /\ CoreIdle
    /\ ClassifyIdle
    /\ ReadIdle
    /\ SearchIdle
    /\ FileIdle
    /\ \E in \in ParseInputs :
           /\ recs = in.recs
           /\ layout = in.layout
           /\ cut = in.cut
           /\ raw = in.raw
    /\ parsed = None

Parse ==
    /\ pc = "parse"
    /\ parsed' = parse_iqr(raw)
    /\ pc' = "parsed"
    /\ UNCHANGED <<otherVars, resp, calls, pending, classifyVars, raw, recs, cut, layout, readVars,
                   searchVars, plcDirVars, fileVars, plcFileVars>>

NextParse == Parse

SpecParse == InitParse /\ [][NextParse]_vars

(***************************************************************************)
(* SpecParseLoop: the while loop of _parse_iqr on the same buffers, one    *)
(* iteration per step.                                                     *)
(***************************************************************************)
InitParseLoop ==
    /\ OtherIdle
    /\ pc = "parse_loop"
    /\ CoreIdle
    /\ ClassifyIdle
    /\ ReadIdle
    /\ SearchIdle
    /\ FileIdle
    /\ \E in \in ParseInputs :
           /\ recs = in.recs
           /\ layout = in.layout
           /\ cut = in.cut
           /\ raw = in.raw
    /\ parsed = ParseStart

\* The loop test and one run of the loop body.
ParseIteration ==
    /\ pc = "parse_loop"
    /\ parsed' = ParseStep(raw, parsed)
    /\ pc' = IF ~parsed'.done THEN "parse_loop"
             ELSE IF parsed'.raised THEN "parse_loop_raised"
             ELSE "parse_loop_returned"
    /\ UNCHANGED <<otherVars, resp, calls, pending, classifyVars, raw, recs, cut, layout, readVars,
                   searchVars, plcDirVars, fileVars, plcFileVars>>

NextParseLoop == ParseIteration

SpecParseLoop == InitParseLoop /\ [][NextParseLoop]_vars

(***************************************************************************)
(* SpecRead: one device read request.                                      *)
(***************************************************************************)
MaxLength == 8

ReadDevices ==
    { Str(<<"D">>), Str(<<"d">>), Str(<<"W">>), Str(<<"R">>), Str(<<"Z", "R">>),
      Str(<<"z", "r">>), Str(<<"X">>), Str(<<"Y">>), Str(<<"y">>), Str(<<"M">>),
      Str(<<"Q">>), Str(<<"D", "X">>), <<>> }

ReadAddrs == {0, 20, 100}

InitRead ==
    /\ OtherIdle
    /\ pc = "read_connect"
    /\ CoreIdle
    /\ ClassifyIdle
    /\ ParseIdle
    /\ SearchIdle
    /\ FileIdle
    /\ device \in ReadDevices
    /\ addr \in ReadAddrs
    /\ length \in 0..MaxLength

NextRead == ReadConnect \/ ReadBatch \/ ReadClose

SpecRead == InitRead /\ [][NextRead]_vars

(***************************************************************************)
(* SpecSearch: one file search against a PLC whose directory holds up to   *)
(* MaxFullPages full pages and a last page of one of TailSizes entries.    *)
(***************************************************************************)
MaxFullPages == 2

TailSizes == {0, 10}

DirSizes == { p * request_count + r : p \in 0..MaxFullPages, r \in TailSizes }

MAIN_PRG == Str(<<"M", "A", "I", "N", ".", "P", "R", "G">>)

SearchNames == { MAIN_PRG, Str(<<"m", "a", "i", "n", ".", "p", "r", "g">>) }

StoredNames ==
    { MAIN_PRG, Str(<<"M", "a", "i", "n", ".", "P", "r", "g">>),
      Str(<<"M", "A", "I", "N", ".", "P", "R">>) }

SearchPaths ==
    { <<>>, Str(<<"$", "T", "M", "P", "$", "/">>), Str(<<"P", "R", "O", "G">>),
      Str(<<"P", "R", "O", "G", "/", "/">>) }

\* The end-codes the PLC answers the direct search with: found, the four of
\* the classifier's table, 0xC061 and 0xC0FF.
SearchCodes ==
    { 0, FILE_NOT_FOUND, DRIVE_NOT_FOUND, ACCESS_DENIED, UNSUPPORTED_COMMAND,
      49249, 49407 }

InitSearch ==
    /\ OtherIdle
    /\ pc = "search_connect"
    /\ CoreIdle
    /\ ClassifyIdle
    /\ ParseIdle
    /\ ReadIdle
    /\ FileIdle
    /\ filename \in SearchNames
    /\ path \in SearchPaths
    /\ dir1811 = <<>>
    /\ dir1810 = <<>>
    /\ ec = <<>>
    /\ files = <<>>
    /\ start = 0
    /\ devCode \in SearchCodes
    /\ dirSize \in DirSizes
    /\ matchPos \in {0, 1, dirSize}
    /\ matchName \in StoredNames
    /\ matchPos = 0 => matchName = MAIN_PRG
    /\ devCode = 0 => (matchPos # 0 /\ Upper(matchName) = Upper(filename))

NextSearch == SearchConnect \/ SearchDirect \/ SearchEnum \/ SearchClose

SpecSearch == InitSearch /\ [][NextSearch]_vars

(***************************************************************************)
(* SpecFile: one api_file_readall request, or one api_file_read request.   *)
(* Small files are read with small chunks, files of a few chunks of the    *)
(* PLC's limit with chunks near the limit.                                 *)
(***************************************************************************)
MaxSmallChunk == 3

MaxSmallSize == 7

BigChunks == {960, 1919, 1920}

BigSizes == {1919, 1920, 1921, 3840, 5000}

BadChunks == {-1, 0, 1921, 4000}

ReadAllCases ==
    ((1..MaxSmallChunk) \X (0..MaxSmallSize))
        \cup (BigChunks \X BigSizes)
        \cup (BadChunks \X {0, 5000})

ReadLengths == {-1, 0, 1, 2, 1024, 1920, 1921, 4000}

ReadOffsets == {0, 1, 5}

InitReadAll ==
    /\ pc = "readall_start"
    /\ \E c \in ReadAllCases :
          /\ chunk = c[1]
          /\ fileSize = c[2]
    /\ openHandles \in SUBSET (Handles \ {MaxHandles})
    /\ fp = 0
    /\ offset = 0
    /\ length = 0

InitFileRead ==
    /\ pc = "file_read"
    /\ chunk = 0
    /\ fileSize \in (0..MaxSmallSize) \cup BigSizes
    /\ openHandles \in SUBSET Handles
    /\ fp \in Handles
    /\ offset \in ReadOffsets
    /\ length \in ReadLengths

InitFile ==
    /\ OtherIdle
    /\ CoreIdle
    /\ ClassifyIdle
    /\ ParseIdle
    /\ SearchIdle
    /\ device = <<>>
    /\ addr = 0
    /\ content = <<>>
    /\ nOpen = 0
    /\ nRead = 0
    /\ closeCalls = <<>>
    /\ devReads = 0
    /\ InitReadAll \/ InitFileRead

NextFile == ApiFileRead \/ ReadAllOpen \/ ReadAllRead \/ ReadAllSave \/ ReadAllClose

SpecFile == InitFile /\ [][NextFile]_vars

(***************************************************************************)
(* SpecShared: an api_file_readall request of a small file and a second    *)
(* request (api_file_open, api_file_read or api_file_close) served at the  *)
(* same time by the same file_ctl.                                         *)
(***************************************************************************)
InitShared ==
    /\ CommentIdle
    /\ CoreIdle
    /\ ClassifyIdle
    /\ ParseIdle
    /\ ReadIdle
    /\ SearchIdle
    /\ pc = "readall_start"
    /\ chunk \in 1..MaxSmallChunk
    /\ fileSize \in 0..MaxSmallSize
    /\ openHandles \in SUBSET (Handles \ {MaxHandles})
    /\ fp = 0
    /\ offset = 0
    /\ content = <<>>
    /\ nOpen = 0
    /\ nRead = 0
    /\ closeCalls = <<>>
    /\ devReads = 0
    /\ pc2 = "other_start"
    /\ op2 \in {"open", "read", "close"}
    /\ fp2 \in Handles
    /\ resp2 = None

NextShared ==
    \/ ReadAllOpen
    \/ ReadAllRead
    \/ ReadAllSave
    \/ ReadAllClose
    \/ OtherFileOpen
    \/ OtherFileRead
    \/ OtherFileClose

SpecShared == InitShared /\ [][NextShared]_vars

(***************************************************************************)
(* SpecPath: the path normalisation of api_filesearch on every path of up  *)
(* to MaxPathLen characters out of "$", the backslash and a letter.        *)
(***************************************************************************)
MaxPathLen == 4

PathChars == {36, Backslash, 65}

PathInputs == UNION { [1..n -> PathChars] : n \in 0..MaxPathLen }

InitPath ==
    /\ OtherIdle
    /\ CoreIdle
    /\ ClassifyIdle
    /\ ParseIdle
    /\ ReadIdle
    /\ FileIdle
    /\ pc = "path"
    /\ filename = <<>>
    /\ path \in PathInputs
    /\ dir1811 = <<>>
    /\ dir1810 = <<>>
    /\ ec = <<>>
    /\ files = <<>>
    /\ start = 0
    /\ devCode = 0
    /\ dirSize = 0
    /\ matchPos = 0
    /\ matchName = <<>>

\* The if / elif / else that sets dir1811 and dir1810.
NormalisePath ==
    /\ pc = "path"
    /\ dir1811' = Dir1811(path)
    /\ dir1810' = Dir1810(path)
    /\ pc' = "path_done"
    /\ UNCHANGED <<otherVars, resp, calls, pending, classifyVars, parseVars, readVars,
                   filename, path, ec, files, start, plcDirVars, fileVars, plcFileVars>>

NextPath == NormalisePath

SpecPath == InitPath /\ [][NextPath]_vars

(***************************************************************************)
(* comments_search.py: the table COMMENTS, load_comments and get_comment;  *)
(* plc_agent.py: run_analysis, which reloads the table on every request,   *)
(* and the comment tool of _run_diagnostics, which the agent calls from a  *)
(* thread of the tpool while the server goes on serving other requests.    *)
(* A table is a function from keys to comments.                            *)
(***************************************************************************)
LowerCp(cp) == IF cp >= 65 /\ cp <= 90 THEN cp + 32 ELSE cp

\* str.lower() on the code points the model uses.
Lower(s) == [i \in 1..Len(s) |-> LowerCp(s[i])]

RECURSIVE LStripSet(_, _)
LStripSet(s, cs) ==
    IF s # <<>> /\ s[1] \in cs THEN LStripSet(Tail(s), cs) ELSE s

RECURSIVE RStripSet(_, _)
RStripSet(s, cs) ==
    IF s # <<>> /\ s[Len(s)] \in cs THEN RStripSet(SubSeq(s, 1, Len(s) - 1), cs) ELSE s

\* The white space str.strip() removes, among the code points of the model.
WhiteSpace == {9, 10, 11, 12, 13, 32}

Quote == {34}

\* cell.strip().strip('"')
CleanCell(c) ==
    LET t == RStripSet(LStripSet(c, WhiteSpace), WhiteSpace)
    IN  RStripSet(LStripSet(t, Quote), Quote)

\* The keys of header rows: "test", the Japanese for "device name", and
\* "test" after a byte-order mark.
HeaderKeys ==
    { Str(<<"t", "e", "s", "t">>),
      <<12487, 12496, 12452, 12473, 21517>>,
      <<65279>> \o Str(<<"t", "e", "s", "t">>) }

\* The rows the loop of load_comments passes over.
RowSkipped(row) ==
    \/ Len(row) < 2
    \/ CleanCell(row[1]) = <<>>
    \/ Lower(CleanCell(row[1])) \in HeaderKeys

\* COMMENTS[key] = val
Put(tbl, key, val) ==
    [k \in DOMAIN tbl \cup {key} |-> IF k = key THEN val ELSE tbl[k]]

\* The body of the loop of load_comments for one row.
LoadRowInto(tbl, row) ==
    IF RowSkipped(row) THEN tbl
    ELSE Put(tbl, CleanCell(row[1]), CleanCell(row[2]))

\* The table after the rows 1..n have been loaded into an empty table.
RECURSIVE LoadedRows(_, _)
LoadedRows(rows, n) ==
    IF n = 0 THEN <<>>
    ELSE LoadRowInto(LoadedRows(rows, n - 1), rows[n])

\* COMMENTS.get(device, "")
get_comment(tbl, dev) == IF dev \in DOMAIN tbl THEN tbl[dev] ELSE <<>>

(***************************************************************************)
(* SpecComments: one run_analysis request, which reloads the comment table *)
(* from the comment file, and one call of the comment tool by the agent of *)
(* a request that is already in its diagnostics; the tool runs in another  *)
(* thread and can run between any two steps of the reload.                 *)
(***************************************************************************)
MaxRows == 2

D100 == Str(<<"D", "1", "0", "0">>)

M5 == Str(<<"M", "5">>)

CommentKeys == {D100, M5}

CommentTexts == {Str(<<"p", "u", "m", "p">>), Str(<<"a", "l", "a", "r", "m">>)}

\* The tables a finished load can have left.
Tables == UNION { [ks -> CommentTexts] : ks \in SUBSET CommentKeys }

CsvRowSet ==
    { <<D100, Str(<<"p", "u", "m", "p">>)>>,
      <<D100, Str(<<"a", "l", "a", "r", "m">>)>>,
      <<Str(<<" ">>) \o M5 \o Str(<<" ">>), <<34>> \o Str(<<"a", "l", "a", "r", "m">>) \o <<34>>>>,
      <<Str(<<"T", "e", "s", "t">>), Str(<<"p", "u", "m", "p">>)>>,
      <<D100>>,
      <<<<>>, Str(<<"p", "u", "m", "p">>)>> }

\* The comment files: NoFile when COMMENT_CSV is not set or names no file.
NoFile == [exists |-> FALSE, rows |-> <<>>]

CsvFiles ==
    { [exists |-> TRUE, rows |-> r] : r \in UNION { [1..n -> CsvRowSet] : n \in 0..MaxRows } }
        \cup {NoFile}

InitComments ==
    /\ ClassifyIdle
    /\ ParseIdle
    /\ ReadIdle
    /\ SearchIdle
    /\ FileIdle
    /\ pc = "analysis_start"
    /\ resp = None
    /\ calls = <<>>
    /\ pending = None
    /\ pc2 = "tool_comment"
    /\ op2 = ""
    /\ fp2 = 0
    /\ resp2 = None
    /\ COMMENTS \in Tables
    /\ before = COMMENTS
    /\ csvFile \in CsvFiles
    /\ rowIdx = 0
    /\ lookup = None

\* run_analysis up to COMMENTS.clear() in load_comments; without a comment
\* file, the test of the table and the start of the diagnostics.
AnalysisStart ==
    /\ pc = "analysis_start"
    /\ IF ~csvFile.exists THEN
           /\ pc' = IF DOMAIN COMMENTS = {} THEN "analysis_done" ELSE "diagnostics"
           /\ resp' = IF DOMAIN COMMENTS = {} THEN [answer |-> "not_loaded"] ELSE resp
           /\ UNCHANGED COMMENTS
       ELSE
           /\ COMMENTS' = <<>>
           /\ pc' = "load_rows"
           /\ resp' = resp
    /\ UNCHANGED <<calls, pending, classifyVars, parseVars, readVars, searchVars,
                   plcDirVars, fileVars, plcFileVars, pc2, op2, fp2, resp2,
                   csvFile, rowIdx, before, lookup>>

\* One row of the loop of load_comments.
LoadRow ==
    /\ pc = "load_rows"
    /\ rowIdx < Len(csvFile.rows)
    /\ COMMENTS' = LoadRowInto(COMMENTS, csvFile.rows[rowIdx + 1])
    /\ rowIdx' = rowIdx + 1
    /\ UNCHANGED <<coreVars, classifyVars, parseVars, readVars, searchVars,
                   plcDirVars, fileVars, plcFileVars, pc2, op2, fp2, resp2,
                   csvFile, before, lookup>>

\* The end of the loop, the test of the table and the start of the
\* diagnostics.
LoadEnd ==
    /\ pc = "load_rows"
    /\ rowIdx = Len(csvFile.rows)
    /\ pc' = IF DOMAIN COMMENTS = {} THEN "analysis_done" ELSE "diagnostics"
    /\ resp' = IF DOMAIN COMMENTS = {} THEN [answer |-> "not_loaded"] ELSE resp
    /\ UNCHANGED <<calls, pending, classifyVars, parseVars, readVars, searchVars,
                   plcDirVars, fileVars, plcFileVars, pc2, op2, fp2, resp2,
                   commentVars>>

\* The comment tool of the other request: hs.get_comment(f"{dev}{address}").
ToolComment ==
    /\ pc2 = "tool_comment"
    /\ \E dev \in CommentKeys :
           /\ lookup' = [key |-> dev, result |-> get_comment(COMMENTS, dev)]
           /\ resp2' = get_comment(COMMENTS, dev)
    /\ pc2' = "tool_done"
    /\ UNCHANGED <<coreVars, classifyVars, parseVars, readVars, searchVars,
                   plcDirVars, fileVars, plcFileVars, op2, fp2,
                   COMMENTS, csvFile, rowIdx, before>>

NextComments == AnalysisStart \/ LoadRow \/ LoadEnd \/ ToolComment

SpecComments == InitComments /\ [][NextComments]_vars

(***************************************************************************)
(* SpecOps: one request of any of the three operations that talk to the    *)
(* PLC: a device read, a file search, or a file request.                   *)
(***************************************************************************)
InitOps == InitRead \/ InitSearch \/ InitFile

NextOps == NextRead \/ NextSearch \/ NextFile

SpecOps == InitOps /\ [][NextOps]_vars

(***************************************************************************)
(* The claims.                                                             *)
(***************************************************************************)
ReadAllOpened == nOpen = 1 /\ fp # 0

\* C1: in api_file_readall, once open_file has returned a handle, close_file
\* is called exactly once, with that handle, before the handler ends, on every
\* way out (the loop ended, read_file raised, the save raised); it is not
\* called before the handler reaches its finally block.
C1_CloseOncePerOpen ==
    /\ (pc = "readall_done" /\ ReadAllOpened) => closeCalls = <<fp>>
    /\ (pc \in {"readall_loop", "readall_save", "readall_finally"}) =>
           (ReadAllOpened /\ closeCalls = <<>>)
    /\ Len(closeCalls) <= 1

C1_Witness ==
    /\ pc = "readall_done"
    /\ ReadAllOpened
    /\ pending = Raise("read_file")
    /\ nRead = 2
    /\ closeCalls = <<fp>>

SearchTransportFailed ==
    /\ "detail" \in DOMAIN resp
    /\ resp.detail = "transport"

\* C2: when the direct search raises the end-code the classifier calls
\* FileNotFound (0xC051) and the directory lists 256, 256 and 10 entries with
\* the requested name only at the last position, the search (no transport
\* call failing) answers with exactly that entry.
C2_FallbackOnFileNotFound ==
    ( /\ pc = "search_done"
      /\ devCode = 49233
      /\ dirSize = 256 + 256 + 10
      /\ matchPos = dirSize
      /\ ~SearchTransportFailed )
    => ( /\ resp.status = 200
         /\ resp.files = <<EntryOf(DirEntry(matchPos))>> )

\* C3: a device read whose device code is none of D, W, R, ZR, X, Y, M makes
\* no call on the transport at all: no connect, no batch read, no close.
C3_NoTransportCallWhenUnsupported ==
    (pc # "read_connect" /\ Upper(device) \notin (WordDevices \cup BitDevices))
    => calls = <<>>

\* The end of the k-th record in the whole buffer.
RecordEnd(k) == 4 + Len(EncodeRecords(recs, 1, k))

CutInsideRecord ==
    /\ layout = "leading_count"
    /\ \E k \in 1..Len(recs) : RecordEnd(k - 1) < cut /\ cut < RecordEnd(k)

CompleteRecords ==
    CHOOSE k \in 0..Len(recs) :
        /\ RecordEnd(k) <= cut
        /\ k < Len(recs) => cut < RecordEnd(k + 1)

\* C4: for a listing cut inside a record the decoder does not raise and
\* returns exactly the entries of the records that lie whole before the cut.
C4_TruncatedListingDecodes ==
    (pc = "parsed" /\ CutInsideRecord)
    => ( /\ ~parsed.raised
         /\ parsed.files = [i \in 1..CompleteRecords |-> EntryOf(recs[i])] )

\* C5: when every read_file returns the bytes that are there, at most chunk
\* of them, a request that gets to its answer has accumulated exactly the
\* fileSize bytes of the file in order, has called read_file
\* fileSize \div chunk + 1 times, and reports bytes_read = fileSize.
C5_ReadAllReturnsWholeFile ==
    /\ pc = "readall_save" =>
           /\ content = [i \in 1..fileSize |-> FileByte(i - 1)]
           /\ nRead = fileSize \div chunk + 1
    /\ (pc = "readall_done" /\ resp.status = 200) =>
           /\ content = [i \in 1..fileSize |-> FileByte(i - 1)]
           /\ nRead = fileSize \div chunk + 1
           /\ resp.bytes_read = fileSize

C5_Witness ==
    /\ pc = "readall_done"
    /\ resp.status = 200
    /\ chunk = 1920
    /\ fileSize = 5000
    /\ nRead = 3
    /\ Len(content) = 5000

\* C6: the classifier returns normally for 0 and for no other code, and
\* raises FileNotFound for 0xC051, DriveNotFound for 0xC052, AccessDenied
\* for 0xC053 and UnsupportedCommand for 0xC059.
C6_ClassifierAgreesWithTable ==
    pc # "classify" =>
        /\ exc.raised <=> status # 0
        /\ status = 49233 => Kind(exc) = "FileNotFound"
        /\ status = 49234 => Kind(exc) = "DriveNotFound"
        /\ status = 49235 => Kind(exc) = "AccessDenied"
        /\ status = 49241 => Kind(exc) = "UnsupportedCommand"

C6_Witness ==
    /\ pc = "classify_raised"
    /\ status = 49241
    /\ Kind(exc) = "UnsupportedCommand"

\* The number a text of hex digits stands for.
RECURSIVE HexValue(_)
HexValue(t) ==
    IF t = <<>> THEN 0
    ELSE LET d == t[Len(t)]
         IN  (IF d <= 57 THEN d - 48 ELSE d - 55) + 16 * HexValue(SubSeq(t, 1, Len(t) - 1))

\* C7: for a non-zero end-code outside the table the classifier raises a
\* plain MCProtocolError (Generic) that stores the code it was given, as
\* the number and as the "0x...." text.
C7_UnmappedCodeIsGeneric ==
    (pc # "classify" /\ status \notin {0, 49233, 49234, 49235, 49241}) =>
        /\ exc.raised
        /\ exc.cls = "MCProtocolError"
        /\ Kind(exc) = "Generic"
        /\ exc.status = status
        /\ SubSeq(exc.code, 1, 2) = <<48, 120>>
        /\ HexValue(SubSeq(exc.code, 3, Len(exc.code))) = status

C7_Witness ==
    /\ pc = "classify_raised"
    /\ status = 49249
    /\ Kind(exc) = "Generic"
    /\ exc.status = 49249

CloseCount == Cardinality({i \in 1..Len(calls) : calls[i].fn = "close"})

\* C8: a file search that has connected calls close exactly once, as its
\* last call on the transport, whatever way it ends, and not before it has
\* reached its finally block.
C8_SearchClosesOnce ==
    /\ pc \in {"search_direct", "search_enum", "search_finally"} => CloseCount = 0
    /\ (pc = "search_done" /\ Len(calls) > 1) =>
           /\ CloseCount = 1
           /\ calls[Len(calls)].fn = "close"
           /\ calls[1].fn = "connect"
    /\ (pc = "search_done" /\ Len(calls) = 1) => calls[1].fn = "connect"

C8_Witness ==
    /\ pc = "search_done"
    /\ pending = Raise("transport")
    /\ start > 1
    /\ calls[Len(calls) - 1].fn = "read_directory_fileinfo"
    /\ CloseCount = 1

CloseFailed == pc = "readall_done" /\ ReadAllOpened /\ fp \in openHandles

\* C11: in api_file_readall a close_file that raises changes nothing of what
\* the caller gets: after a failed read (or save) the caller gets that
\* failure, after a request that succeeded up to the close the caller gets
\* its successful answer.
C11_CloseFailureSuppressed ==
    CloseFailed =>
        /\ pending.kind = "raise" =>
               resp = [status |-> 500, detail |-> pending.error]
        /\ pending.kind = "return" =>
               resp = [status |-> 200, bytes_read |-> Len(content)]

C11_Witness ==
    /\ CloseFailed
    /\ pending = Raise("read_file")
    /\ resp.status = 500
    /\ resp.detail = "read_file"
    /\ closeCalls = <<fp>>

\* The entries the records of the listing were built from, in record order.
BuiltEntries == [i \in 1..Len(recs) |-> EntryOf(recs[i])]

\* C12: for a buffer built as the 4-byte header, the records in the layout of
\* the documented decoding algorithm and the terminator, the decoder returns
\* one entry per record, in order, with the name, extension, size and
\* attribute the record was built from.
C12_DocumentedLayoutRoundTrip ==
    (pc = "parsed" /\ layout = "reverse_walked") =>
        /\ ~parsed.raised
        /\ parsed.files = BuiltEntries

WholeListing == layout = "leading_count" /\ cut = Len(EncodeListing(recs))

\* C16: a record whose name is empty (character count zero) or made of NUL
\* code units only gives an entry with an empty name, and the records after
\* it are decoded as well.
C16_EmptyNameStillAnEntry ==
    ( /\ pc = "parsed"
      /\ WholeListing
      /\ \E i \in 1..Len(recs) : RStripNul(recs[i].fullname) = <<>> )
    => ( /\ ~parsed.raised
         /\ parsed.files = BuiltEntries )

\* The calls of the function fn among the calls made so far.
CallsOf(fn) == SelectSeq(calls, LAMBDA c : c.fn = fn)

\* The batch read of the request has been made (or has raised).
ReadIssued == pc \in {"read_finally", "read_done"} /\ Len(calls) > 1

\* C14: a read of D, W, R or ZR makes exactly one batchread_wordunits call
\* and no batchread_bitunits call, a read of X, Y or M exactly one
\* batchread_bitunits call and no batchread_wordunits call, each with the
\* device code followed by the address, and the requested count; the values
\* of a successful answer are the values the batch read returned.
C14_ReadUsesTheDeviceClassPrimitive ==
    LET code == Upper(device)
        isWord == code \in {Str(<<"D">>), Str(<<"W">>), Str(<<"R">>), Str(<<"Z", "R">>)}
        isBit == code \in {Str(<<"X">>), Str(<<"Y">>), Str(<<"M">>)}
        theCall(fn) == <<Call(fn, <<code \o IntStr(addr), length>>)>>
    IN  /\ (ReadIssued /\ isWord) =>
               /\ CallsOf("batchread_wordunits") = theCall("batchread_wordunits")
               /\ CallsOf("batchread_bitunits") = <<>>
               /\ (pc = "read_done" /\ resp.status = 200) =>
                      resp.values = WordValues(addr, length)
        /\ (ReadIssued /\ isBit) =>
               /\ CallsOf("batchread_bitunits") = theCall("batchread_bitunits")
               /\ CallsOf("batchread_wordunits") = <<>>
               /\ (pc = "read_done" /\ resp.status = 200) =>
                      resp.values = BitValues(addr, length)

C14_Witness ==
    /\ pc = "read_done"
    /\ device = Str(<<"Y">>)
    /\ addr = 20
    /\ length = 8
    /\ Len(calls) = 3
    /\ calls[2] = Call("batchread_bitunits", <<Str(<<"Y", "2", "0">>), 8>>)
    /\ resp = [status |-> 200, values |-> BitValues(20, 8)]

\* The readall request holds a handle: open_file has returned it and
\* close_file has not been called yet.
InSession == pc \in {"readall_loop", "readall_save", "readall_finally"}

\* C15: while an api_file_readall request is between its open and its close,
\* no read or close of another request succeeds on the handle it holds.
C15_HandleNotShared ==
    [][ ( /\ InSession
          /\ pc2 = "other_start"
          /\ pc2' = "other_done"
          /\ op2 \in {"read", "close"}
          /\ fp2 = fp )
        => resp2'.status # 200 ]_vars

\* The search got all its answers: no transport call raised, close included.
SearchRanThrough ==
    /\ pc = "search_done"
    /\ ~SearchTransportFailed
    /\ pending.kind # "raise"

\* The directory entry at position i is named like the requested file,
\* ignoring case.
EntryMatches(i) ==
    LET e == EntryOf(DirEntry(i))
    IN  Upper(e.name \o <<46>> \o e.ext) = Upper(filename)

\* C17: when the direct search fails with the not-found code the fallback is
\* taken for (0xC061) and no entry of the whole directory is named like the
\* requested file, the search ends with a 404; and whenever the fallback
\* answers with success, the list is not empty and holds matching entries
\* only.
C17_FallbackWithoutMatchIsNotFound ==
    (SearchRanThrough /\ devCode = 49249) =>
        /\ (\A i \in 1..dirSize : ~EntryMatches(i)) =>
               (resp.status = 404 /\ "files" \notin DOMAIN resp)
        /\ resp.status = 200 =>
               /\ resp.files # <<>>
               /\ \A k \in 1..Len(resp.files) :
                      Upper(resp.files[k].name \o <<46>> \o resp.files[k].ext)
                          = Upper(filename)

C17_Witness ==
    /\ SearchRanThrough
    /\ devCode = 49249
    /\ dirSize = 2 * 256 + 10
    /\ matchPos = dirSize
    /\ matchName = Str(<<"M", "A", "I", "N", ".", "P", "R">>)
    /\ Len(CallsOf("read_directory_fileinfo")) = 3
    /\ resp.status = 404

\* The direct search was answered with an end-code that is not the one the
\* fallback is taken for.
OtherCodeAnswered ==
    /\ pc \in {"search_finally", "search_done"}
    /\ devCode \notin {0, 49249}
    /\ ~SearchTransportFailed
    /\ pending.kind = "http"

\* C18: when the direct search fails with an end-code other than the one
\* the fallback is taken for, no read_directory_fileinfo call is made and
\* read_search_fileinfo is called once only; the caller gets a failure that
\* is not a 404 and names that end-code.
C18_OtherCodesAreSurfaced ==
    OtherCodeAnswered =>
        /\ CallsOf("read_directory_fileinfo") = <<>>
        /\ Len(CallsOf("read_search_fileinfo")) = 1
        /\ pending.status # 404
        /\ SubSeq(pending.ec, 1, 2) = <<48, 120>>
        /\ HexValue(SubSeq(pending.ec, 3, Len(pending.ec))) = devCode
        /\ pc = "search_done" => resp = [status |-> 500, ec |-> pending.ec]

C18_Witness ==
    /\ OtherCodeAnswered
    /\ pc = "search_done"
    /\ devCode = 49233
    /\ resp = [status |-> 500, ec |-> Str(<<"0", "x", "C", "0", "5", "1">>)]
    /\ Len(calls) = 3

\* The enumeration calls made so far, in order.
Pages == CallsOf("read_directory_fileinfo")

\* The entries of the first n directory positions, as they decode.
DirEntries(n) == [i \in 1..n |-> EntryOf(DirEntry(i))]

\* C19: the k-th enumeration call asks for 256 entries from position
\* 1 + 256 * (k - 1); a further page is asked for exactly when the page
\* before reported 256 entries, so the enumeration ends with the first page
\* that reports fewer; the entries that are filtered are the decoded
\* entries of all the pages, in page order.
C19_EnumerationPages ==
    /\ \A k \in 1..Len(Pages) :
           /\ Pages[k].args[1] = 1 + 256 * (k - 1)
           /\ Pages[k].args[2] = 256
    /\ pc = "search_enum" =>
           /\ 256 * Len(Pages) <= dirSize
           /\ files = DirEntries(256 * Len(Pages))
    /\ (pc \in {"search_finally", "search_done"} /\ Pages # <<>>
            /\ pending.kind # "raise") =>
           /\ Len(Pages) = dirSize \div 256 + 1
           /\ files = DirEntries(dirSize)

C19_Witness ==
    /\ pc = "search_done"
    /\ dirSize = 2 * 256
    /\ Len(Pages) = 3
    /\ Pages[3].args[1] = 513
    /\ pending.kind = "http"
    /\ Len(files) = dirSize

\* The read_file calls of the read loop so far, in order.
Reads == CallsOf("read_file")

\* What the read at the offset off returned.
ReadAt(off) == FileData(off, chunk)

\* C20: the first read of the loop is at offset 0 and each later one at the
\* offset before plus the chunk size; every read but the last returned
\* exactly chunk bytes (nothing is read after a short or empty read), and
\* the loop ends without an error only on a read that returned fewer than
\* chunk bytes (after a full chunk it reads again).
C20_ReadLoopOffsets ==
    /\ \A k \in 1..Len(Reads) : Reads[k].args = <<fp, chunk * (k - 1), chunk>>
    /\ \A k \in 1..(Len(Reads) - 1) : Len(ReadAt(chunk * (k - 1))) = chunk
    /\ pc = "readall_loop" =>
           /\ offset = chunk * Len(Reads)
           /\ Len(Reads) > 0 => Len(ReadAt(offset - chunk)) = chunk
    /\ (pc = "readall_save" \/ (pc \in {"readall_finally", "readall_done"}
                                   /\ Reads # <<>>
                                   /\ pending \notin {Raise("read_file"),
                                                       Raise("InvalidArgument")})) =>
           Len(ReadAt(chunk * (Len(Reads) - 1))) < chunk

C20_Witness ==
    /\ pc = "readall_done"
    /\ chunk = 3
    /\ fileSize = 6
    /\ Len(Reads) = 3
    /\ Reads[3].args = <<fp, 6, 3>>
    /\ ReadAt(6) = <<>>
    /\ resp.status = 200

\* C21: the file_ctl calls of one api_file_readall request come in the order
\* open_file, then the read_file calls, then close_file: the first call is
\* open_file, every later call uses the handle it returned, close_file is
\* the last call and is made only when the handler is past its read loop,
\* and nothing is called after it.
C21_SessionCallsInOrder ==
    /\ calls # <<>> => calls[1].fn = "open_file"
    /\ \A k \in 2..Len(calls) :
           /\ calls[k].fn \in {"read_file", "close_file"}
           /\ ReadAllOpened
           /\ calls[k].args[1] = fp
    /\ \A k \in 1..Len(calls) :
           calls[k].fn = "close_file" => (k = Len(calls) /\ pc = "readall_done")
    /\ pc \in {"readall_loop", "readall_save", "readall_finally"} =>
           Len(calls) = 1 + Len(Reads)

C21_Witness ==
    /\ pc = "readall_done"
    /\ Len(calls) = 4
    /\ calls[1].fn = "open_file"
    /\ calls[2].fn = "read_file"
    /\ calls[3].fn = "read_file"
    /\ calls[4] = Call("close_file", <<fp>>)
    /\ pending = Raise("read_file")

\* C22: a device read that has connected calls close exactly once, as its
\* last transport call, whether the batch read returned or raised, and not
\* before its finally block; it calls connect once only, as its first call.
C22_ReadClosesOnce ==
    /\ Len(CallsOf("connect")) <= 1
    /\ calls # <<>> => calls[1].fn = "connect"
    /\ pc \in {"read_try", "read_finally"} => CallsOf("close") = <<>>
    /\ (pc = "read_done" /\ Len(calls) > 1) =>
           /\ Len(CallsOf("close")) = 1
           /\ calls[Len(calls)].fn = "close"
    /\ (pc = "read_done" /\ Len(calls) = 1) => resp.status = 500

C22_Witness ==
    /\ pc = "read_done"
    /\ pending = Raise("transport")
    /\ Len(calls) = 3
    /\ calls[2].fn = "batchread_wordunits"
    /\ calls[3].fn = "close"

\* C23: for an empty path the direct search gets the empty directory and the
\* enumeration gets "$MELPRJ$"; for every other path the directory of the
\* direct search is the directory of the enumeration followed by one
\* backslash, and the directory of the enumeration does not end in a
\* backslash.
C23_SearchDirectories ==
    pc = "path_done" =>
        /\ path = <<>> =>
               /\ dir1811 = <<>>
               /\ dir1810 = Str(<<"$", "M", "E", "L", "P", "R", "J", "$">>)
        /\ path # <<>> =>
               /\ dir1811 = dir1810 \o <<92>>
               /\ dir1810 # <<>>
               /\ dir1810[Len(dir1810)] # 92

C23_Witness ==
    /\ pc = "path_done"
    /\ path = <<65, 92, 92>>
    /\ dir1810 = Str(<<"$", "M", "E", "L", "P", "R", "J", "$">>) \o <<92, 65>>
    /\ dir1811 = dir1810 \o <<92>>

\* A transport call inside the try block of the running operation raised.
CallRaised == pending \in {Raise("transport"), Raise("read_file")}

\* connect, open_file, or the close of a device read or a file search raised.
ConnectOrCloseRaised ==
    /\ "detail" \in DOMAIN resp
    /\ resp.detail \in {"transport", "open_file"}

OperationEnded == pc \in {"read_done", "search_done", "readall_done", "file_read_done"}

\* The position in calls of the call that raised inside the try block: the
\* last call, or the one before the close of the finally block.
RaisedAt == IF OperationEnded THEN Len(calls) - 1 ELSE Len(calls)

TransportFailureEndsOperation ==
    /\ (OperationEnded /\ (CallRaised \/ ConnectOrCloseRaised)) => resp.status = 500
    /\ CallRaised =>
           /\ calls[RaisedAt].fn \notin {"close", "close_file"}
           /\ \A k \in 1..(RaisedAt - 1) : calls[k] # calls[RaisedAt]
           /\ OperationEnded => calls[Len(calls)].fn \in {"close", "close_file"}
    /\ (OperationEnded /\ ConnectOrCloseRaised /\ ~CallRaised) =>
           \/ calls = <<>>
           \/ calls \in {<<Call("connect", <<>>)>>, <<Call("open_file", <<>>)>>}
           \/ /\ calls[Len(calls)].fn = "close"
              /\ Len(CallsOf("close")) = 1

\* C24 as amended: a failure raised by a transport call of a device read, a
\* file search or a read-whole-file session, other than the close_file of
\* the read-whole-file session, ends the operation with an error to the
\* caller, and the call that failed is not made again.
C24_TransportFailureIsSurfaced == TransportFailureEndsOperation

\* C24 as stated: the same for every transport call, the close_file of the
\* read-whole-file session included.
C24_EveryTransportFailureIsSurfaced ==
    /\ TransportFailureEndsOperation
    /\ CloseFailed => resp.status # 200

C24_Witness ==
    /\ pc = "search_done"
    /\ pending = Raise("transport")
    /\ Len(Pages) = 2
    /\ Len(calls) = 5
    /\ resp.status = 500

\* The number of records that precede the first record position whose
\* leading field is a sentinel: a record with character count zero, or the
\* sentinel that follows the records.
RECURSIVE BeforeSentinel(_)
BeforeSentinel(k) ==
    IF k >= Len(recs) \/ Len(recs[k + 1].fullname) = 0 THEN k
    ELSE BeforeSentinel(k + 1)

\* What the buffer holds after the records and the sentinel.
Trailer == SubSeq(raw, RecordEnd(Len(recs)) + 3, Len(raw))

\* C25: when the leading 2-byte field of a record position is 0xFFFF or
\* zero the decoder stops without an entry for that position, and the bytes
\* after it give no entry, whatever they are.
C25_SentinelStopsDecoding ==
    (pc = "parsed" /\ layout \in DOMAIN Sentinels) =>
        /\ ~parsed.raised
        /\ parsed.files = [i \in 1..BeforeSentinel(0) |-> EntryOf(recs[i])]

C25_Witness ==
    /\ pc = "parsed"
    /\ layout = "sentinel_zero"
    /\ recs = <<[fullname |-> Str(<<"A">>), attribute |-> 32, size |-> 1]>>
    /\ Len(Trailer) = 25
    /\ parsed.files = <<EntryOf(recs[1])>>

\* C26: when no read returns more than chunk bytes, at the moment a read is
\* issued the offset is the number of bytes accumulated and a multiple of
\* chunk; the k-th read is of the range that starts where the ranges before
\* it end, and the bytes accumulated are the file's bytes from 0 on, none
\* twice and none left out.
C26_OffsetIsBytesAccumulated ==
    /\ pc = "readall_loop" =>
           /\ offset = Len(content)
           /\ offset % chunk = 0
    /\ \A k \in 1..Len(Reads) :
           /\ Reads[k].args[2] % chunk = 0
           /\ k > 1 => Reads[k].args[2] = Reads[k - 1].args[2] + Len(ReadAt(Reads[k - 1].args[2]))
    /\ pc \in {"readall_loop", "readall_save", "readall_finally", "readall_done"} =>
           content = [i \in 1..Len(content) |-> FileByte(i - 1)]

C26_Witness ==
    /\ pc = "readall_loop"
    /\ chunk = 3
    /\ Len(Reads) = 2
    /\ offset = 6
    /\ Len(content) = 6

ParseLoopEnded == pc \in {"parse_loop_returned", "parse_loop_raised"}

\* C27: the decoder's loop ends on every buffer.  The distance from idx to
\* the end of the buffer is the loop's variant: an iteration after which the
\* loop goes on started with at least 2 bytes left and has moved idx forward
\* by at least 25; an iteration that starts with fewer than 2 bytes left
\* ends the loop; so the loop runs at most (len(raw) - 6) \div 25 + 2 times,
\* and the number of entries is bounded by the length of the buffer.
C27_DecoderTerminates ==
    /\ [][(pc = "parse_loop" /\ pc' = "parse_loop") =>
               /\ parsed.idx + 2 <= Len(raw)
               /\ parsed'.idx >= parsed.idx + 25
               /\ Len(parsed'.files) = Len(parsed.files) + 1]_vars
    /\ [][(pc = "parse_loop" /\ parsed.idx + 2 > Len(raw)) => pc' = "parse_loop_returned"]_vars
    /\ []((pc = "parse_loop" \/ ParseLoopEnded) =>
              /\ parsed.idx >= 4 + 25 * Len(parsed.files)
              /\ parsed.files # <<>> => 4 + 25 * (Len(parsed.files) - 1) + 2 <= Len(raw))

C27_Witness ==
    /\ pc = "parse_loop_returned"
    /\ layout = "leading_count"
    /\ cut = Len(EncodeListing(recs))
    /\ Len(recs) = 2
    /\ Len(parsed.files) = 2
    /\ parsed.idx = Len(raw) - 2

OpenFailed ==
    /\ pc = "readall_done"
    /\ "detail" \in DOMAIN resp
    /\ resp.detail = "open_file"

\* C28: when open_file fails in api_file_readall the caller gets the error
\* and open_file is the only file_ctl call made: no read_file and no
\* close_file; and whenever close_file is called, it is with the handle
\* open_file returned to this request.
C28_OpenFailureCallsNothingElse ==
    /\ OpenFailed =>
           /\ resp.status = 500
           /\ calls = <<Call("open_file", <<>>)>>
           /\ closeCalls = <<>>
           /\ nRead = 0
    /\ \A k \in 1..Len(calls) :
           calls[k].fn = "close_file" => (ReadAllOpened /\ calls[k].args = <<fp>>)
    /\ closeCalls # <<>> => ReadAllOpened
    /\ (pc = "readall_done" /\ nOpen = 1 /\ ~ReadAllOpened) => OpenFailed

C28_Witness ==
    /\ OpenFailed
    /\ resp.status = 500
    /\ nOpen = 1
    /\ fp = 0
    /\ calls = <<Call("open_file", <<>>)>>

\* The count the PLC reports for the page asked for at the current start.
PageCnt == PageCount(start, request_count)

\* C29: the fallback enumeration ends for every directory.  The number of
\* entries from start on is the loop's variant: a page request after which
\* the loop goes on got a full page and has raised start; a page request
\* that gets fewer than 256 entries (or raises) ends the loop; so at most
\* dirSize \div 256 + 1 pages are asked for, each from a higher start than
\* the one before, and the request then closes the connection and ends.
C29_EnumerationTerminates ==
    /\ [][(pc = "search_enum" /\ pc' = "search_enum") =>
               /\ PageCnt = 256
               /\ start' > start
               /\ start' <= dirSize + 1]_vars
    /\ [][(pc = "search_enum" /\ PageCnt < 256) => pc' = "search_finally"]_vars
    /\ [][pc = "search_finally" =>
               /\ pc' = "search_done"
               /\ calls' = Append(calls, Call("close", <<>>))]_vars
    /\ [](/\ Len(Pages) <= dirSize \div 256 + 1
          /\ \A k \in 2..Len(Pages) : Pages[k].args[1] > Pages[k - 1].args[1]
          /\ pc = "search_enum" => start = 1 + 256 * Len(Pages))

C29_Witness ==
    /\ pc = "search_done"
    /\ dirSize = 256 + 10
    /\ Len(Pages) = 2
    /\ start = 257
    /\ pending.kind # "raise"
    /\ calls[Len(calls)] = Call("close", <<>>)

\* The table the reload leaves.
Reloaded == LoadedRows(csvFile.rows, Len(csvFile.rows))

\* C30: while a request reloads the comment table, a key whose comment is
\* the same before and after the reload is found, with that comment, by a
\* get_comment of another request at every moment.
C30_ReloadNeverHidesAComment ==
    ( /\ pc2 = "tool_done"
      /\ csvFile.exists
      /\ lookup.key \in DOMAIN before
      /\ lookup.key \in DOMAIN Reloaded
      /\ before[lookup.key] = Reloaded[lookup.key] )
    => lookup.result = before[lookup.key]

====
